---- MODULE Spec2Model ----
(***************************************************************************)
(* Model of juiceboxservice.py: the DeviceMessage decoder and the          *)
(* JuiceboxService run loop (sequence emulation, schedule evaluation,      *)
(* acknowledgement and change telegrams).                                  *)
(*                                                                         *)
(* Text is modelled as a sequence of one-character strings, so that the    *)
(* regular expressions, split(','), int() and float() of the source are    *)
(* computed on the characters of the telegram.                             *)
(*                                                                         *)
(* Python values are tagged records:                                       *)
(*   None                      [t |-> "None"]                              *)
(*   str                       [t |-> "str",   s |-> <<chars>>]            *)
(*   int                       [t |-> "int",   i |-> n]                    *)
(*   float                     [t |-> "float", n |-> num, d |-> den]       *)
(*   bool                      [t |-> "bool",  b |-> TRUE or FALSE]        *)
(* A float is kept as the exact rational n/d; the binary rounding of       *)
(* Python floats is not modelled.                                          *)
(***************************************************************************)
EXTENDS Integers, Sequences, FiniteSets, TLC

----------------------------------------------------------------------------
(* Character classes of the regular expressions (ASCII, the datagram is    *)
(* decoded with pkt.decode('ascii')).                                      *)

Digit == {"0", "1", "2", "3", "4", "5", "6", "7", "8", "9"}

Letter ==
    {"a", "b", "c", "d", "e", "f", "g", "h", "i", "j", "k", "l", "m",
     "n", "o", "p", "q", "r", "s", "t", "u", "v", "w", "x", "y", "z",
     "A", "B", "C", "D", "E", "F", "G", "H", "I", "J", "K", "L", "M",
     "N", "O", "P", "Q", "R", "S", "T", "U", "V", "W", "X", "Y", "Z"}

\* \w
WordChar == Digit \cup Letter \cup {"_"}

\* [\-\w,]
PayloadChar == WordChar \cup {"-", ","}

DigitVal(c) ==
    CASE c = "0" -> 0 [] c = "1" -> 1 [] c = "2" -> 2 [] c = "3" -> 3
      [] c = "4" -> 4 [] c = "5" -> 5 [] c = "6" -> 6 [] c = "7" -> 7
      [] c = "8" -> 8 [] c = "9" -> 9

None == [t |-> "None"]

PyStr(chars) == [t |-> "str", s |-> chars]

PyIntVal(n) == [t |-> "int", i |-> n]

PyFloatVal(num, den) == [t |-> "float", n |-> num, d |-> den]

PyBool(b) == [t |-> "bool", b |-> b]

----------------------------------------------------------------------------
(* Regular-expression matching.  RunEnd(s, i, C) is the index of the first *)
(* character at or after i that is not in class C (Len(s)+1 when the run   *)
(* reaches the end): the end of a greedy C+ started at i.  In both         *)
(* patterns every class is followed by a delimiter outside the class, so   *)
(* the greedy run is the only way to match and no backtracking arises.     *)

RECURSIVE RunEnd(_, _, _)
RunEnd(s, i, C) ==
    IF i <= Len(s) /\ s[i] \in C THEN RunEnd(s, i + 1, C) ELSE i

At(s, i) == IF i >= 1 /\ i <= Len(s) THEN s[i] ELSE "EOS"

NoMatch == [matched |-> FALSE]

\* pat = "^(\d+):([\-\w,]+)!(\w+):" with re.search
DataMatch(msg) ==
    LET a == RunEnd(msg, 1, Digit)
        b == RunEnd(msg, a + 1, PayloadChar)
        c == RunEnd(msg, b + 1, WordChar)
    IN  IF /\ a > 1
           /\ At(msg, a) = ":"
           /\ b > a + 1
           /\ At(msg, b) = "!"
           /\ c > b + 1
           /\ At(msg, c) = ":"
        THEN [matched |-> TRUE,
              g1 |-> SubSeq(msg, 1, a - 1),
              g2 |-> SubSeq(msg, a + 1, b - 1),
              g3 |-> SubSeq(msg, b + 1, c - 1)]
        ELSE NoMatch

\* pat = "^(\d+):DBG,(\w+):(.+?):$" with re.search; '.' excludes "\n" and
\* '$' matches at the end or just before a final "\n".
DebugMatch(msg) ==
    LET a == RunEnd(msg, 1, Digit)
        b == RunEnd(msg, a + 5, WordChar)
        e == IF At(msg, Len(msg)) = "\n" THEN Len(msg) - 1 ELSE Len(msg)
    IN  IF /\ a > 1
           /\ At(msg, a) = ":"
           /\ At(msg, a + 1) = "D"
           /\ At(msg, a + 2) = "B"
           /\ At(msg, a + 3) = "G"
           /\ At(msg, a + 4) = ","
           /\ b > a + 5
           /\ At(msg, b) = ":"
           /\ e > b + 1
           /\ At(msg, e) = ":"
           /\ \A k \in (b + 1)..(e - 1) : msg[k] # "\n"
        THEN [matched |-> TRUE,
              g1 |-> SubSeq(msg, 1, a - 1),
              g2 |-> SubSeq(msg, a + 5, b - 1),
              g3 |-> SubSeq(msg, b + 1, e - 1)]
        ELSE NoMatch

\* payload.split(',') on a text over [\-\w,]: the pieces between commas,
\* empty pieces included.
RECURSIVE Split(_)
Split(s) ==
    LET k == RunEnd(s, 1, PayloadChar \ {","})
    IN  IF k > Len(s)
        THEN <<s>>
        ELSE <<SubSeq(s, 1, k - 1)>> \o Split(SubSeq(s, k + 1, Len(s)))

----------------------------------------------------------------------------
(* int(text) and float(text) on the texts a payload can hold: an optional  *)
(* leading minus, digits, and single underscores between digits.  Any      *)
(* other text over [\-\w] raises ValueError for int().  float() also       *)
(* accepts exponent forms, "inf" and "nan"; those texts are outside the    *)
(* inputs of this model.                                                   *)

Unsigned(text) == IF Len(text) > 0 /\ text[1] = "-" THEN Tail(text) ELSE text

IsIntLiteral(text) ==
    LET body == Unsigned(text)
    IN  /\ Len(body) > 0
        /\ body[1] \in Digit
        /\ body[Len(body)] \in Digit
        /\ \A k \in 1..Len(body) :
              /\ body[k] \in Digit \cup {"_"}
              /\ body[k] = "_" => body[k + 1] # "_"

RECURSIVE Magnitude(_, _)
Magnitude(body, acc) ==
    IF body = <<>> THEN acc
    ELSE IF Head(body) = "_" THEN Magnitude(Tail(body), acc)
    ELSE Magnitude(Tail(body), 10 * acc + DigitVal(Head(body)))

IntOf(text) ==
    IF Len(text) > 0 /\ text[1] = "-"
    THEN 0 - Magnitude(Unsigned(text), 0)
    ELSE Magnitude(text, 0)

----------------------------------------------------------------------------
(* DeviceMessage.xlat: the translation table.  A multiplier is the exact   *)
(* rational multN/multD (0.1 = 1/10, 1.8 = 18/10, 0.01 = 1/100).           *)

Chars_unplugged == <<"u", "n", "p", "l", "u", "g", "g", "e", "d">>

Chars_plugged_in == <<"p", "l", "u", "g", "g", "e", "d", "-", "i", "n">>

Chars_charging == <<"c", "h", "a", "r", "g", "i", "n", "g">>

Chars_not_defined == <<"n", "o", "t", "-", "d", "e", "f", "i", "n", "e", "d">>

Chars_error == <<"e", "r", "r", "o", "r">>

status_enum ==
    <<Chars_unplugged, Chars_plugged_in, Chars_charging,
      Chars_not_defined, Chars_error>>

Entry(name, type) ==
    [name |-> name, type |-> type, hasMult |-> FALSE, multN |-> 1,
     multD |-> 1, hasOfs |-> FALSE, ofs |-> 0, hasEnum |-> FALSE]

xlat_codes ==
    {"v", "A", "u", "V", "L", "S", "T", "M", "m", "t", "i", "f", "s", "F",
     "C", "e", "r", "b", "B", "p", "E", "P"}

xlat(code) ==
    CASE code = "v" -> Entry("version", "str")
      [] code = "A" ->
           [Entry("current", "float") EXCEPT
               !.hasMult = TRUE, !.multN = 1, !.multD = 10]
      [] code = "u" -> Entry("loop_counter", "int")
      [] code = "V" ->
           [Entry("voltage", "float") EXCEPT
               !.hasMult = TRUE, !.multN = 1, !.multD = 10]
      [] code = "L" -> Entry("lifetime", "int")
      [] code = "S" -> [Entry("status", "int") EXCEPT !.hasEnum = TRUE]
      [] code = "T" ->
           [Entry("temperature", "float") EXCEPT
               !.hasMult = TRUE, !.multN = 18, !.multD = 10,
               !.hasOfs = TRUE, !.ofs = 32]
      [] code = "M" -> Entry("current_default", "int")
      [] code = "m" -> Entry("current_rating", "int")
      [] code = "t" -> Entry("report_time", "int")
      [] code = "i" -> Entry("interval", "int")
      [] code = "f" ->
           [Entry("frequency", "float") EXCEPT
               !.hasMult = TRUE, !.multN = 1, !.multD = 100]
      [] code = "s" -> Entry("sequence", "int")
      [] code = "F" -> Entry("F", "int")
      [] code = "C" -> Entry("current_available", "int")
      [] code = "e" -> Entry("e", "int")
      [] code = "r" -> Entry("r", "int")
      [] code = "b" -> Entry("b", "int")
      [] code = "B" -> Entry("B", "int")
      [] code = "p" -> Entry("p", "int")
      [] code = "E" -> Entry("E", "int")
      [] code = "P" -> Entry("P", "int")

----------------------------------------------------------------------------
(* DeviceMessage.xlat_payload_part.  The result is either                  *)
(* [exc |-> "None", cmd, val] or [exc |-> <exception raised>].             *)

Raise(e) == [exc |-> e]

Pair(cmd, val) == [exc |-> "None", cmd |-> cmd, val |-> val]

\* xlat['type'](val)
Convert(type, text) ==
    IF type = "str" THEN Pair("", PyStr(text))
    ELSE IF ~IsIntLiteral(text) THEN Raise("ValueError")
    ELSE IF type = "int" THEN Pair("", PyIntVal(IntOf(text)))
    ELSE Pair("", PyFloatVal(IntOf(text), 1))

\* val = val * xlat['mult'] (every entry with a multiplier is a float)
ApplyMult(x, val) ==
    IF x.hasMult /\ val.t = "float"
    THEN PyFloatVal(val.n * x.multN, val.d * x.multD)
    ELSE val

\* val = val + xlat['ofs']
ApplyOfs(x, val) ==
    IF x.hasOfs /\ val.t = "float"
    THEN PyFloatVal(val.n + x.ofs * val.d, val.d)
    ELSE val

\* val = xlat['enum'][val]: a Python list index, so -5..-1 count from the
\* end and anything outside -5..4 raises IndexError.
ApplyEnum(x, val) ==
    IF ~x.hasEnum THEN Pair("", val)
    ELSE IF val.i >= 0 /\ val.i < Len(status_enum)
         THEN Pair("", PyStr(status_enum[val.i + 1]))
    ELSE IF val.i < 0 /\ val.i >= 0 - Len(status_enum)
         THEN Pair("", PyStr(status_enum[Len(status_enum) + val.i + 1]))
    ELSE Raise("IndexError")

\* variant: the table indexed without the membership test, KeyError for a
\* code that is not in it
xlat_payload_part_k(part) ==
    IF part = <<>> THEN Raise("IndexError")
    ELSE
      LET cmd == part[1]
          val == Tail(part)
      IN  IF cmd \notin xlat_codes
          THEN Raise("KeyError")
          ELSE
            LET x == xlat(cmd)
                conv == Convert(x.type, val)
            IN  IF conv.exc # "None" THEN conv
                ELSE
                  LET res == ApplyEnum(x, ApplyOfs(x, ApplyMult(x, conv.val)))
                  IN  IF res.exc # "None" THEN res
                      ELSE Pair(x.name, res.val)

\* variant: the offset added before the multiplier is applied
xlat_payload_part_m(part) ==
    IF part = <<>> THEN Raise("IndexError")
    ELSE
      LET cmd == part[1]
          val == Tail(part)
      IN  IF cmd \notin xlat_codes
          THEN Pair(cmd, PyStr(val))
          ELSE
            LET x == xlat(cmd)
                conv == Convert(x.type, val)
            IN  IF conv.exc # "None" THEN conv
                ELSE
                  LET res == ApplyEnum(x, ApplyMult(x, ApplyOfs(x, conv.val)))
                  IN  IF res.exc # "None" THEN res
                      ELSE Pair(x.name, res.val)

xlat_payload_part(part) ==
    IF part = <<>> THEN Raise("IndexError")
    ELSE
      LET cmd == part[1]
          val == Tail(part)
      IN  IF cmd \notin xlat_codes
          THEN Pair(cmd, PyStr(val))
          ELSE
            LET x == xlat(cmd)
                conv == Convert(x.type, val)
            IN  IF conv.exc # "None" THEN conv
                ELSE
                  LET res == ApplyEnum(x, ApplyOfs(x, ApplyMult(x, conv.val)))
                  IN  IF res.exc # "None" THEN res
                      ELSE Pair(x.name, res.val)

----------------------------------------------------------------------------
(* DeviceMessage: __init__, from_string and __str__.  attrs holds the      *)
(* attributes that setattr adds to the instance.                           *)

NoAttrs == [k \in {} |-> None]

SetAttr(attrs, k, v) ==
    [a \in DOMAIN attrs \cup {k} |-> IF a = k THEN v ELSE attrs[a]]

DeviceMessage_init ==
    [exc |-> "None", device_id |-> None, payload |-> <<>>, crc |-> None,
     payload_type |-> "data", attrs |-> NoAttrs]

\* for part in parts: setattr(self, *xlat_payload_part(part))
RECURSIVE AssignParts(_, _)
AssignParts(parts, attrs) ==
    IF parts = <<>> THEN [exc |-> "None", attrs |-> attrs]
    ELSE
      LET r == xlat_payload_part(Head(parts))
      IN  IF r.exc # "None" THEN [exc |-> r.exc, attrs |-> attrs]
          ELSE AssignParts(Tail(parts), SetAttr(attrs, r.cmd, r.val))

\* if not hasattr(self, 'current'): self.current = 0
DefaultCurrent(attrs) ==
    IF "current" \in DOMAIN attrs THEN attrs
    ELSE SetAttr(attrs, "current", PyIntVal(0))

from_string(msg) ==
    LET self == [DeviceMessage_init EXCEPT !.payload = msg]
        mat == DataMatch(msg)
        dbg == DebugMatch(msg)
    IN  IF mat.matched
        THEN
          LET r == AssignParts(Split(mat.g2), NoAttrs)
          IN  IF r.exc # "None"
              THEN [self EXCEPT !.exc = r.exc]
              ELSE [self EXCEPT !.device_id = PyStr(mat.g1),
                                !.crc = PyStr(mat.g3),
                                !.attrs = DefaultCurrent(r.attrs)]
        ELSE IF dbg.matched
        THEN [self EXCEPT
                !.device_id = PyStr(dbg.g1),
                !.payload_type = "debug",
                !.attrs = SetAttr(SetAttr(NoAttrs, "debug_level",
                                          PyStr(dbg.g2)),
                                  "debug_message", PyStr(dbg.g3))]
        ELSE self

HasAttr(dmsg, name) == name \in DOMAIN dmsg.attrs

\* __str__ reads status, current and current_available of a data message;
\* a missing attribute raises AttributeError.
DeviceMessage_str_raises(dmsg) ==
    /\ dmsg.payload_type = "data"
    /\ \E a \in {"status", "current", "current_available"} :
          ~HasAttr(dmsg, a)

----------------------------------------------------------------------------
(* Inputs of the model.                                                    *)

\* sep.join(parts)
RECURSIVE Join(_, _)
Join(parts, sep) ==
    IF parts = <<>> THEN <<>>
    ELSE IF Len(parts) = 1 THEN parts[1]
    ELSE parts[1] \o <<sep>> \o Join(Tail(parts), sep)

\* <deviceId>:<field>,<field>,...!<checksum>:
Telegram(parts) ==
    <<"1", "2", "3", ":">> \o Join(parts, ",") \o
    <<"!", "A", "B", "1", "2", ":">>

F_v == <<"v", "0", "9", "u">>
F_S1 == <<"S", "1">>
F_A == <<"A", "0", "1", "0">>
F_V == <<"V", "2", "4", "0", "1">>
F_T == <<"T", "2", "5">>
F_L == <<"L", "7", "5">>
F_M == <<"M", "1", "6">>
F_C032 == <<"C", "0", "3", "2">>
F_s3 == <<"s", "3">>

\* values of field 's': 2, 3, 998, 999, 1000, 0, -1, -5
SequenceFields ==
    {<<"s", "2">>, F_s3, <<"s", "9", "9", "8">>, <<"s", "9", "9", "9">>,
     <<"s", "1", "0", "0", "0">>, <<"s", "0">>, <<"s", "-", "1">>,
     <<"s", "-", "5">>}

\* values of field 'C': 0, 16, 32, 40, -5
AvailableFields ==
    {<<"C", "0">>, <<"C", "1", "6">>, F_C032, <<"C", "4", "0">>,
     <<"C", "-", "5">>}

\* "123:A010,S1,C032!AB12:"
ExampleTelegram == Telegram(<<F_A, F_S1, F_C032>>)

\* data telegrams with every field the service reads
CompleteTelegrams ==
    {Telegram(<<F_S1, F_A, F_V, F_T, F_L, F_M, c, q>>) :
        c \in AvailableFields, q \in SequenceFields}

\* data telegrams lacking a field, or with a field that does not decode
OddTelegrams ==
    {Telegram(<<F_v, F_S1, F_A, F_V, F_T, F_L, F_M, F_C032, F_s3>>),
     Telegram(<<F_A, F_S1, F_C032>>),
     Telegram(<<F_S1, F_A, F_V, F_T, F_L, F_M, F_C032>>),
     Telegram(<<F_S1, F_A, F_V, F_T, F_L, F_C032, F_s3>>),
     Telegram(<<F_S1, F_A, F_V, F_T, F_L, F_M, F_s3>>),
     Telegram(<<F_A, F_V, F_T, F_L, F_M, F_C032, F_s3>>),
     Telegram(<<F_S1, F_M, F_C032, F_s3>>),
     Telegram(<<F_S1, F_A, F_V, F_T, F_L, <<>>, F_M, F_C032, F_s3>>),
     Telegram(<<<<"S", "5">>, F_A, F_V, F_T, F_L, F_M, F_C032, F_s3>>),
     Telegram(<<<<"S", "-", "1">>, F_A, F_V, F_T, F_L, F_M, F_C032, F_s3>>),
     Telegram(<<F_S1, F_A, F_V, F_T, F_L, F_M, F_C032, F_s3,
                <<"Z", "9">>>>),
     Telegram(<<F_S1, F_A, F_V, F_T, F_L, F_M, F_C032,
                <<"s", "x", "1">>>>),
     Telegram(<<<<"S">>, F_A, F_V, F_T, F_L, F_M, F_C032, F_s3>>),
     Telegram(<<F_S1, F_A, F_V, F_T, F_L, F_M, <<"M", "2", "0">>, F_C032,
                <<"s", "1", "_", "0">>>>),
     Telegram(<<<<"D", "B", "G">>, <<"2">>>>)}

\* "123:DBG,2:boot ok:" and the same followed by a newline
DebugTelegrams ==
    {<<"1", "2", "3", ":", "D", "B", "G", ",", "2", ":",
       "b", "o", "o", "t", " ", "o", "k", ":">>,
     <<"1", "2", "3", ":", "D", "B", "G", ",", "2", ":",
       "b", "o", "o", "t", " ", "o", "k", ":", "\n">>}

\* lines that match neither grammar
UnmatchedTelegrams ==
    {<<>>,
     <<"h", "e", "l", "l", "o">>,
     <<"1", "2", "3", ":", "D", "B", "G", ",", "2", ":">>,
     <<"1", "2", "3", ":", "S", "1", ",", "C", "0", "3", "2">>}

Telegrams ==
    CompleteTelegrams \cup OddTelegrams \cup DebugTelegrams
        \cup UnmatchedTelegrams

\* --schedule: absent, or a text
Sched_9_17 == <<"9", ":", "0", "0", "-", "1", "7", ":", "0", "0">>

Sched_22_6 == <<"2", "2", ":", "0", "0", "-", "6", ":", "0", "0">>

Sched_945_1730 == <<"9", ":", "4", "5", "-", "1", "7", ":", "3", "0">>

Sched_12_1230 == <<"1", "2", ":", "0", "0", "-", "1", "2", ":", "3", "0">>

Sched_bad == <<"9", "-", "1", "7">>

ScheduleArgs ==
    {None, PyStr(Sched_9_17), PyStr(Sched_22_6), PyStr(Sched_945_1730),
     PyStr(Sched_12_1230), PyStr(Sched_bad)}

\* --current
CurrentArgs == {40, 16}

\* the hours and minutes datetime.now() is observed at
Hours == {8, 10, 12, 23}

Minutes == {0, 5, 30, 59}

----------------------------------------------------------------------------
(* State.                                                                  *)

VARIABLES
    args,           \* parsed command line: schedule, current, log
    sched,          \* self.start_hour, start_min, end_hour, end_min
    has_version,    \* whether a ServiceMessage instance has a 'version'
                    \* attribute (a property of the imported juicebox
                    \* library, which this source does not fix)
    pc,             \* position of the process in __init__ / run
    line,           \* the text of the datagram last received, None
                    \* before the first
    dmsg,           \* run's dmsg
    smsg,           \* run's smsg
    now,            \* hour and minute read by is_in_schedule
    in_schedule,    \* current_change_value's in_schedule, as a PyBool
    change_value,   \* run's change_value
    sent,           \* telegrams handed to sendto since the last receive
    log_rows,       \* rows appended to the log since the last receive
    steps           \* steps of run performed since the last receive

vars ==
    <<args, sched, has_version, pc, line, dmsg, smsg, now, in_schedule,
      change_value, sent, log_rows, steps>>

----------------------------------------------------------------------------
(* JuiceboxService.init_args                                               *)

\* re.search("(\d+):(\d+)-(\d+):(\d+)", text) tried at position i
ScheduleMatchAt(text, i) ==
    LET a == RunEnd(text, i, Digit)
        b == RunEnd(text, a + 1, Digit)
        c == RunEnd(text, b + 1, Digit)
        d == RunEnd(text, c + 1, Digit)
    IN  IF /\ a > i
           /\ At(text, a) = ":"
           /\ b > a + 1
           /\ At(text, b) = "-"
           /\ c > b + 1
           /\ At(text, c) = ":"
           /\ d > c + 1
        THEN [matched |-> TRUE,
              g1 |-> SubSeq(text, i, a - 1),
              g2 |-> SubSeq(text, a + 1, b - 1),
              g3 |-> SubSeq(text, b + 1, c - 1),
              g4 |-> SubSeq(text, c + 1, d - 1)]
        ELSE NoMatch

\* the leftmost match
ScheduleSearch(text) ==
    LET hits == {i \in 1..Len(text) : ScheduleMatchAt(text, i).matched}
    IN  IF hits = {} THEN NoMatch
        ELSE ScheduleMatchAt(text,
                             CHOOSE i \in hits : \A j \in hits : i <= j)

DefaultSchedule ==
    [start_hour |-> 0, start_min |-> 0, end_hour |-> 23, end_min |-> 59]

\* [exited |-> TRUE] stands for sys.exit(1)
init_args(a) ==
    IF a.schedule = None \/ a.schedule.s = <<>>
    THEN [exited |-> FALSE, sched |-> DefaultSchedule]
    ELSE
      LET mat == ScheduleSearch(a.schedule.s)
      IN  IF ~mat.matched
          THEN [exited |-> TRUE, sched |-> DefaultSchedule]
          ELSE [exited |-> FALSE,
                sched |-> [start_hour |-> IntOf(mat.g1),
                           start_min |-> IntOf(mat.g2),
                           end_hour |-> IntOf(mat.g3),
                           end_min |-> IntOf(mat.g4)]]

----------------------------------------------------------------------------
(* JuiceboxService: update_sequence, save_data, create_reply_message,      *)
(* is_in_schedule, current_change_value, create_update_message.            *)

cmd_seq == <<6, 242, 8, 244>>

\* A ServiceMessage as this source uses it.  counter and command of a new
\* instance are set by update_sequence before anything reads them.
ServiceMessage_init ==
    [counter |-> 0, command |-> 0, offline_amperage |-> None,
     instant_amperage |-> None, version |-> None, payload_str |-> None]

\* variant: the table read one entry further
Command_m(counter) == cmd_seq[((counter + 1) % 4) + 1]

\* cmd_seq[counter % 4]; Python lists are indexed from 0
Command(counter) == cmd_seq[(counter % 4) + 1]

\* variant: the counter wraps on reaching 999
update_sequence_m(m, sequence) ==
    LET seeded == IF sequence # None THEN sequence.i ELSE m.counter
        bumped == seeded + 1
        wrapped == IF bumped >= 999 THEN 1 ELSE bumped
    IN  [m EXCEPT !.counter = wrapped, !.command = Command(wrapped)]

update_sequence(m, sequence) ==
    LET seeded == IF sequence # None THEN sequence.i ELSE m.counter
        bumped == seeded + 1
        wrapped == IF bumped > 999 THEN 1 ELSE bumped
    IN  [m EXCEPT !.counter = wrapped, !.command = Command(wrapped)]

LogAttrs == {"status", "current", "voltage", "temperature", "lifetime"}

\* save_data raises AttributeError when a logged attribute is missing
save_data_raises(a, d) ==
    a.log /\ \E n \in LogAttrs : ~HasAttr(d, n)

save_data_rows(a, d) == IF a.log THEN 1 ELSE 0

\* variant: the two amperage fields exchanged
create_reply_message_m(d, hv) ==
    IF \E n \in {"current_default", "current_available", "sequence"} :
          ~HasAttr(d, n)
    THEN [exc |-> "AttributeError", smsg |-> None]
    ELSE
      LET m0 == [ServiceMessage_init EXCEPT
                    !.offline_amperage = d.attrs["current_available"],
                    !.instant_amperage = d.attrs["current_default"]]
          m1 == update_sequence(m0, d.attrs["sequence"])
      IN  IF ~hv THEN [exc |-> "None", smsg |-> m1]
          ELSE IF ~HasAttr(d, "version")
          THEN [exc |-> "AttributeError", smsg |-> None]
          ELSE [exc |-> "None",
                smsg |-> [m1 EXCEPT !.version = d.attrs["version"]]]

create_reply_message(d, hv) ==
    IF \E n \in {"current_default", "current_available", "sequence"} :
          ~HasAttr(d, n)
    THEN [exc |-> "AttributeError", smsg |-> None]
    ELSE
      LET m0 == [ServiceMessage_init EXCEPT
                    !.offline_amperage = d.attrs["current_default"],
                    !.instant_amperage = d.attrs["current_available"]]
          m1 == update_sequence(m0, d.attrs["sequence"])
      IN  IF ~hv THEN [exc |-> "None", smsg |-> m1]
          ELSE IF ~HasAttr(d, "version")
          THEN [exc |-> "AttributeError", smsg |-> None]
          ELSE [exc |-> "None",
                smsg |-> [m1 EXCEPT !.version = d.attrs["version"]]]

\* variant: the time of day compared as a whole
is_in_schedule_m(w, hour, min) ==
    LET after_start == 60 * hour + min >= 60 * w.start_hour + w.start_min
        before_end == 60 * hour + min <= 60 * w.end_hour + w.end_min
    IN  IF w.start_hour < w.end_hour
        THEN after_start /\ before_end
        ELSE after_start \/ before_end

is_in_schedule(w, hour, min) ==
    LET after_start == hour >= w.start_hour /\ min >= w.start_min
        before_end == hour <= w.end_hour /\ min <= w.end_min
    IN  IF w.start_hour < w.end_hour
        THEN after_start /\ before_end
        ELSE after_start \/ before_end

\* variant: charging is forced off also when the device reports 0
current_change_value_m(d, a, in_sched) ==
    LET current == d.attrs["current_available"].i
    IN  IF in_sched /\ current # a.current THEN PyIntVal(a.current)
        ELSE IF ~in_sched /\ current >= 0 THEN PyIntVal(0)
        ELSE None

\* variant: the target sent whenever in-window
current_change_value_t(d, a, in_sched) ==
    LET current == d.attrs["current_available"].i
    IN  IF in_sched THEN PyIntVal(a.current)
        ELSE IF ~in_sched /\ current > 0 THEN PyIntVal(0)
        ELSE None

\* variant: 0 sent whenever not in-window
current_change_value_z(d, a, in_sched) ==
    LET current == d.attrs["current_available"].i
    IN  IF in_sched /\ current # a.current THEN PyIntVal(a.current)
        ELSE IF ~in_sched THEN PyIntVal(0)
        ELSE None

current_change_value(d, a, in_sched) ==
    LET current == d.attrs["current_available"].i
    IN  IF in_sched /\ current # a.current THEN PyIntVal(a.current)
        ELSE IF ~in_sched /\ current > 0 THEN PyIntVal(0)
        ELSE None

\* the fields the serializer renders
Fields(m) ==
    [counter |-> m.counter, command |-> m.command,
     offline_amperage |-> m.offline_amperage,
     instant_amperage |-> m.instant_amperage, version |-> m.version]

\* smsg.build() of the juicebox serializer: the raw-payload override
\* payload_str is used as the wire text when it is set; otherwise the text
\* is rendered from the fields and cached in payload_str.
build(m) ==
    LET text == IF m.payload_str # None THEN m.payload_str ELSE Fields(m)
    IN  [wire |-> text, m |-> [m EXCEPT !.payload_str = text]]

\* variant: the cached payload is not cleared
create_update_message_m(m, value) ==
    build(update_sequence([m EXCEPT !.offline_amperage = value,
                                    !.instant_amperage = value],
                          None)).m

create_update_message(m, value) ==
    build([update_sequence([m EXCEPT !.offline_amperage = value,
                                     !.instant_amperage = value],
                           None)
              EXCEPT !.payload_str = None]).m

\* send_message: msg = smsg.build(), handed to sendto
Wire(m) == build(m).wire

----------------------------------------------------------------------------
(* The process: __init__, then run.                                        *)

Init ==
    /\ args \in [schedule : ScheduleArgs, current : CurrentArgs,
                 log : BOOLEAN]
    /\ has_version \in BOOLEAN
    /\ sched = DefaultSchedule
    /\ pc = "start"
    /\ line = None
    /\ dmsg = None
    /\ smsg = None
    /\ now = None
    /\ in_schedule = None
    /\ change_value = None
    /\ sent = <<>>
    /\ log_rows = 0
    /\ steps = <<>>

\* __init__: init_args, then init_socket
Startup ==
    /\ pc = "start"
    /\ LET r == init_args(args)
       IN  /\ sched' = r.sched
           /\ pc' = IF r.exited THEN "exited" ELSE "await"
    /\ UNCHANGED <<args, has_version, line, dmsg, smsg, now, in_schedule,
                   change_value, sent, log_rows, steps>>

\* dmsg = DeviceMessage.from_string(msg), tabulated once for the telegrams
\* of the model
Decoded == [text \in Telegrams |-> from_string(text)]

\* variant: the payload-type test left out
NotData_m(d) == FALSE

\* if dmsg.payload_type != "data": continue
NotData(d) == d.payload_type # "data"

\* run, lines 250-254: get_next_device_message (recvfrom, from_string,
\* print(dmsg)) and the payload-type test.  An exception leaves run, and
\* with it the process.  The locals of the previous iteration are dead
\* here and are cleared.
Receive(text) ==
    /\ pc = "await"
    /\ line' = PyStr(text)
    /\ LET d == Decoded[text]
       IN  IF d.exc # "None" \/ DeviceMessage_str_raises(d)
           THEN pc' = "crashed" /\ dmsg' = None
           ELSE /\ dmsg' = d
                /\ pc' = IF NotData(d) THEN "await" ELSE "save"
    /\ smsg' = None
    /\ now' = None
    /\ in_schedule' = None
    /\ change_value' = None
    /\ sent' = <<>>
    /\ log_rows' = 0
    /\ steps' = <<>>
    /\ UNCHANGED <<args, sched, has_version>>

\* Receive without the clearing of run's locals: smsg and change_value keep
\* the values of the previous iteration until lines 264 and 272 assign them
\* again.  (now and in_schedule belong to frames that have returned.)
ReceiveKeep(text) ==
    /\ pc = "await"
    /\ line' = PyStr(text)
    /\ LET d == Decoded[text]
       IN  IF d.exc # "None" \/ DeviceMessage_str_raises(d)
           THEN pc' = "crashed" /\ dmsg' = None
           ELSE /\ dmsg' = d
                /\ pc' = IF NotData(d) THEN "await" ELSE "save"
    /\ now' = None
    /\ in_schedule' = None
    /\ sent' = <<>>
    /\ log_rows' = 0
    /\ steps' = <<>>
    /\ UNCHANGED <<args, sched, has_version, smsg, change_value>>

\* run, line 257: self.save_data(dmsg)
SaveData ==
    /\ pc = "save"
    /\ IF save_data_raises(args, dmsg)
       THEN pc' = "crashed" /\ UNCHANGED <<log_rows, steps>>
       ELSE /\ log_rows' = log_rows + save_data_rows(args, dmsg)
            /\ steps' = Append(steps, "save_data")
            /\ pc' = "pace4"
    /\ UNCHANGED <<args, sched, has_version, line, dmsg, smsg, now,
                   in_schedule, change_value, sent>>

\* run, line 261: time.sleep(4)
PaceDelay4 ==
    /\ pc = "pace4"
    /\ steps' = Append(steps, "sleep4")
    /\ pc' = "reply"
    /\ UNCHANGED <<args, sched, has_version, line, dmsg, smsg, now,
                   in_schedule, change_value, sent, log_rows>>

\* variant: the counter of the previous exchange's message is continued
\* instead of being seeded from the telegram
CreateReply_m ==
    /\ pc = "reply"
    /\ LET r == create_reply_message(dmsg, has_version)
       IN  IF r.exc # "None"
           THEN pc' = "crashed" /\ UNCHANGED <<smsg, steps>>
           ELSE /\ smsg' = IF smsg = None THEN r.smsg
                           ELSE update_sequence(
                                    [r.smsg EXCEPT !.counter = smsg.counter],
                                    None)
                /\ steps' = Append(steps, "create_reply")
                /\ pc' = "sendack"
    /\ UNCHANGED <<args, sched, has_version, line, dmsg, now, in_schedule,
                   change_value, sent, log_rows>>

\* run, line 264: smsg = self.create_reply_message(dmsg)
CreateReply ==
    /\ pc = "reply"
    /\ LET r == create_reply_message(dmsg, has_version)
       IN  IF r.exc # "None"
           THEN pc' = "crashed" /\ UNCHANGED <<smsg, steps>>
           ELSE /\ smsg' = r.smsg
                /\ steps' = Append(steps, "create_reply")
                /\ pc' = "sendack"
    /\ UNCHANGED <<args, sched, has_version, line, dmsg, now, in_schedule,
                   change_value, sent, log_rows>>

\* run, line 267: self.send_message(smsg, address)
SendAck ==
    /\ pc = "sendack"
    /\ sent' = Append(sent, Wire(smsg))
    /\ smsg' = build(smsg).m
    /\ steps' = Append(steps, "send")
    /\ pc' = "evaluate"
    /\ UNCHANGED <<args, sched, has_version, line, dmsg, now,
                   in_schedule, change_value, log_rows>>

\* run, lines 272-273: change_value = self.current_change_value(dmsg),
\* with datetime.now() at hour:min
Evaluate(hour, min) ==
    /\ pc = "evaluate"
    /\ now' = [hour |-> hour, min |-> min]
    /\ LET ins == is_in_schedule(sched, hour, min)
           v == current_change_value(dmsg, args, ins)
       IN  /\ in_schedule' = PyBool(ins)
           /\ change_value' = v
           /\ pc' = IF v # None THEN "pace1" ELSE "await"
    /\ steps' = Append(steps, "evaluate")
    /\ UNCHANGED <<args, sched, has_version, line, dmsg, smsg, sent,
                   log_rows>>

\* run, line 275: time.sleep(1)
PaceDelay1 ==
    /\ pc = "pace1"
    /\ steps' = Append(steps, "sleep1")
    /\ pc' = "update"
    /\ UNCHANGED <<args, sched, has_version, line, dmsg, smsg, now,
                   in_schedule, change_value, sent, log_rows>>

\* run, line 277: self.create_update_message(smsg, change_value)
CreateUpdate ==
    /\ pc = "update"
    /\ smsg' = create_update_message(smsg, change_value)
    /\ steps' = Append(steps, "create_update")
    /\ pc' = "sendchange"
    /\ UNCHANGED <<args, sched, has_version, line, dmsg, now, in_schedule,
                   change_value, sent, log_rows>>

\* run, line 279: self.send_message(smsg, address)
SendChange ==
    /\ pc = "sendchange"
    /\ sent' = Append(sent, Wire(smsg))
    /\ smsg' = build(smsg).m
    /\ steps' = Append(steps, "send")
    /\ pc' = "await"
    /\ UNCHANGED <<args, sched, has_version, line, dmsg, now,
                   in_schedule, change_value, log_rows>>

Next ==
    \/ Startup
    \/ \E text \in Telegrams : Receive(text)
    \/ SaveData
    \/ PaceDelay4
    \/ CreateReply
    \/ SendAck
    \/ \E hour \in Hours, min \in Minutes : Evaluate(hour, min)
    \/ PaceDelay1
    \/ CreateUpdate
    \/ SendChange

Spec == Init /\ [][Next]_vars

\* The same process with run's locals kept across iterations, for a
\* default and a wrapping window without a log.
InitHistory ==
    /\ Init
    /\ args.schedule \in {None, PyStr(Sched_22_6)}
    /\ ~args.log

NextHistory ==
    \/ Startup
    \/ \E text \in Telegrams : ReceiveKeep(text)
    \/ SaveData
    \/ PaceDelay4
    \/ CreateReply
    \/ SendAck
    \/ \E hour \in Hours, min \in Minutes : Evaluate(hour, min)
    \/ PaceDelay1
    \/ CreateUpdate
    \/ SendChange

SpecHistory == InitHistory /\ [][NextHistory]_vars

----------------------------------------------------------------------------
(* Properties.                                                             *)

\* the telegram last received has been accepted as data (line 253 passed)
Accepted == dmsg # None /\ dmsg.payload_type = "data"

\* run is not inside an exchange: it awaits a telegram, or it has ended
ExchangeOver == pc \in {"await", "crashed"}

\* C1: for every telegram accepted as data the loop performs save_data,
\* the 4s delay, the acknowledgement, the schedule evaluation and then
\* optionally the 1s delay and the change telegram, in this order, before
\* it receives again: exactly one acknowledgement per accepted data
\* telegram, a change telegram exactly when current_change_value returned
\* a value, sent after the acknowledgement.
C1_ExchangeOrder ==
    LET order == <<"save_data", "sleep4", "create_reply", "send",
                   "evaluate", "sleep1", "create_update", "send">>
    IN  /\ Len(steps) <= Len(order)
        /\ steps = SubSeq(order, 1, Len(steps))
        /\ (Accepted /\ ExchangeOver) =>
              /\ Len(steps) \in {5, 8}
              /\ Len(sent) = (IF change_value # None THEN 2 ELSE 1)

\* C2: a received telegram whose payload kind is not data is dropped:
\* until the next receive the loop is back at awaiting, no log row has
\* been written and no telegram has been sent.
C2_NonDataDropped ==
    (dmsg # None /\ dmsg.payload_type # "data") =>
        /\ pc = "await"
        /\ steps = <<>>
        /\ log_rows = 0
        /\ sent = <<>>

C2_Witness ==
    /\ line # None
    /\ line.s \in DebugTelegrams
    /\ dmsg # None
    /\ dmsg.payload_type = "debug"
    /\ pc = "await"

\* C3: a received line matching neither grammar yields a message with no
\* device id and payload kind unrecognized, and the exchange drops it
\* without a log write or a reply.
C3_UnmatchedDropped ==
    (/\ line # None
     /\ ~DataMatch(line.s).matched
     /\ ~DebugMatch(line.s).matched) =>
        /\ from_string(line.s).device_id = None
        /\ from_string(line.s).payload_type = "unrecognized"
        /\ pc = "await"
        /\ log_rows = 0
        /\ sent = <<>>

\* C4: no received telegram terminates the service loop.
C4_LoopSurvives == pc # "crashed"

\* C5: current_change_value returns the configured target when in-window
\* and the reported available current differs from it, 0 when not
\* in-window and the reported available current is above 0, and None in
\* every other case.
C5_ChangeValue ==
    in_schedule # None =>
        LET reported == dmsg.attrs["current_available"].i
            target == args.current
            inWindow == in_schedule.b
        IN  /\ (inWindow /\ reported # target) =>
                  change_value = PyIntVal(target)
            /\ (~inWindow /\ reported > 0) => change_value = PyIntVal(0)
            /\ (inWindow /\ reported = target) => change_value = None
            /\ (~inWindow /\ reported <= 0) => change_value = None

C5_Witness ==
    /\ in_schedule = PyBool(FALSE)
    /\ dmsg.attrs["current_available"].i = 16
    /\ change_value = PyIntVal(0)

\* C6: with window 9:00-17:00, 12:30 is in-window and 8:59 is not; with
\* window 22:00-6:00, 23:30 is in-window and 12:00 is not.
C6_ScheduleExamples ==
    in_schedule # None =>
        LET w917 == [start_hour |-> 9, start_min |-> 0,
                     end_hour |-> 17, end_min |-> 0]
            w226 == [start_hour |-> 22, start_min |-> 0,
                     end_hour |-> 6, end_min |-> 0]
        IN  /\ (sched = w917 /\ now = [hour |-> 12, min |-> 30]) =>
                  in_schedule.b
            /\ (sched = w917 /\ now = [hour |-> 8, min |-> 59]) =>
                  ~in_schedule.b
            /\ (sched = w226 /\ now = [hour |-> 23, min |-> 30]) =>
                  in_schedule.b
            /\ (sched = w226 /\ now = [hour |-> 12, min |-> 0]) =>
                  ~in_schedule.b

\* C7: update_sequence sets the counter to the device-supplied sequence
\* when one is given and otherwise keeps the stored counter, adds one, and
\* sets the counter to 1 if the result exceeds 999 (999 yields 1, 3 yields 4).
C7_UpdateSequence ==
    [][/\ (pc = "reply" /\ pc' = "sendack") =>
             LET given == dmsg.attrs["sequence"].i
             IN  smsg'.counter = (IF given + 1 > 999 THEN 1 ELSE given + 1)
       /\ (pc = "update" /\ pc' = "sendchange") =>
             /\ smsg'.counter =
                   (IF smsg.counter + 1 > 999 THEN 1 ELSE smsg.counter + 1)
             /\ smsg.counter = 999 => smsg'.counter = 1
             /\ smsg.counter = 3 => smsg'.counter = 4]_vars

C7_Witness ==
    /\ pc = "sendchange"
    /\ Len(sent) = 1
    /\ sent[1].counter = 999
    /\ smsg.counter = 1

\* C8: in every outbound telegram the command is the entry of the table
\* [6, 242, 8, 244] at index (counter mod 4), counting from 0.
C8_CommandTable ==
    \A k \in 1..Len(sent) :
        /\ sent[k].command \in {6, 242, 8, 244}
        /\ sent[k].command =
              (CASE sent[k].counter % 4 = 0 -> 6
                 [] sent[k].counter % 4 = 1 -> 242
                 [] sent[k].counter % 4 = 2 -> 8
                 [] sent[k].counter % 4 = 3 -> 244)

C8_Witness ==
    /\ Len(sent) = 2
    /\ sent[1].counter = 3
    /\ sent[1].command = 244
    /\ sent[2].command = 6

\* C9: the counter of every telegram sent lies in 1..999, whatever integer
\* the device gives in field 's'.
C9_CounterRange ==
    \A k \in 1..Len(sent) : sent[k].counter \in 1..999

\* C10: the acknowledgement carries the device's default-current as
\* offline amperage, its available-current as instant amperage, and its
\* sequence number advanced once as counter.
C10_AckFields ==
    Len(sent) >= 1 =>
        LET reported == dmsg.attrs["sequence"].i
        IN  /\ sent[1].offline_amperage = dmsg.attrs["current_default"]
            /\ sent[1].instant_amperage = dmsg.attrs["current_available"]
            /\ sent[1].counter =
                  (IF reported + 1 > 999 THEN 1 ELSE reported + 1)

C10_Witness ==
    /\ Len(sent) >= 1
    /\ dmsg.attrs["sequence"].i = 999
    /\ sent[1].offline_amperage = PyIntVal(16)
    /\ sent[1].instant_amperage = PyIntVal(32)
    /\ sent[1].counter = 1

\* C11: a change telegram carries the value returned by
\* current_change_value as offline and as instant amperage, and the counter
\* of the acknowledgement of the same exchange advanced once without
\* re-seeding; the cached raw payload is cleared before the telegram is
\* built, so the text sent is rendered from these fields.
C11_ChangeFields ==
    Len(sent) = 2 =>
        /\ sent[2].offline_amperage = change_value
        /\ sent[2].instant_amperage = change_value
        /\ sent[2].counter =
              (IF sent[1].counter + 1 > 999 THEN 1 ELSE sent[1].counter + 1)
        /\ sent[2] = Fields(smsg)

C11_Witness ==
    /\ Len(sent) = 2
    /\ sent[1].counter = 999
    /\ sent[1].instant_amperage = PyIntVal(32)
    /\ sent[2].counter = 1
    /\ sent[2].instant_amperage = PyIntVal(0)

\* C12: every message returned by from_string whose payload kind is data
\* has a current value: the decoded 'A' field when the telegram has one,
\* and 0 otherwise.
C12_DataHasCurrent ==
    line # None =>
        LET d == from_string(line.s)
            mat == DataMatch(line.s)
            hasA == /\ mat.matched
                    /\ \E k \in 1..Len(Split(mat.g2)) :
                          /\ Split(mat.g2)[k] # <<>>
                          /\ Split(mat.g2)[k][1] = "A"
        IN  (d.exc = "None" /\ d.payload_type = "data") =>
                /\ HasAttr(d, "current")
                /\ hasA => d.attrs["current"].t = "float"
                /\ ~hasA => d.attrs["current"] = PyIntVal(0)

\* C13: "123:A010,S1,C032!AB12:" decodes to device id 123, checksum AB12,
\* current 1.0, status plugged-in and current_available 32; a field is
\* converted, then multiplied, then offset, then looked up as a label
\* (V2401 is 240.1, T25 is 25 * 1.8 + 32 = 77, L75 is 75).
C13_ParseExample ==
    dmsg # None =>
        /\ line.s = ExampleTelegram =>
              /\ dmsg.payload_type = "data"
              /\ dmsg.device_id = PyStr(<<"1", "2", "3">>)
              /\ dmsg.crc = PyStr(<<"A", "B", "1", "2">>)
              /\ dmsg.attrs["current"].t = "float"
              /\ dmsg.attrs["current"].n = 1 * dmsg.attrs["current"].d
              /\ dmsg.attrs["status"] = PyStr(Chars_plugged_in)
              /\ dmsg.attrs["current_available"] = PyIntVal(32)
        /\ HasAttr(dmsg, "voltage") =>
              10 * dmsg.attrs["voltage"].n = 2401 * dmsg.attrs["voltage"].d
        /\ HasAttr(dmsg, "temperature") =>
              dmsg.attrs["temperature"].n = 77 * dmsg.attrs["temperature"].d
        /\ HasAttr(dmsg, "lifetime") => dmsg.attrs["lifetime"] = PyIntVal(75)

C13_Witness ==
    /\ line # None
    /\ line.s = ExampleTelegram
    /\ dmsg # None
    /\ dmsg.attrs["current"] = PyFloatVal(10, 10)
    /\ pc = "save"

\* C14: is_in_schedule compares hour and minute independently:
\* afterStart = (hour >= startHour and minute >= startMinute), beforeEnd =
\* (hour <= endHour and minute <= endMinute); the result is their
\* conjunction when startHour < endHour and their disjunction otherwise.
\* With window start 9:45 and time 10:05 afterStart is false.
C14_ScheduleFormula ==
    in_schedule # None =>
        LET afterStart ==
                now.hour >= sched.start_hour /\ now.min >= sched.start_min
            beforeEnd ==
                now.hour <= sched.end_hour /\ now.min <= sched.end_min
        IN  /\ sched.start_hour < sched.end_hour =>
                  (in_schedule.b <=> (afterStart /\ beforeEnd))
            /\ sched.start_hour >= sched.end_hour =>
                  (in_schedule.b <=> (afterStart \/ beforeEnd))
            /\ (/\ sched.start_hour = 9
                /\ sched.start_min = 45
                /\ sched.end_hour = 17
                /\ now = [hour |-> 10, min |-> 5]) =>
                  ~afterStart /\ ~in_schedule.b

C14_Witness ==
    /\ in_schedule = PyBool(FALSE)
    /\ sched.start_hour = 9
    /\ sched.start_min = 45
    /\ now = [hour |-> 10, min |-> 5]

C16_VersionCopied ==
    /\ (Len(sent) >= 1 /\ HasAttr(dmsg, "version")) =>
          sent[1].version = dmsg.attrs["version"]
    /\ (/\ Accepted
        /\ ExchangeOver
        /\ ~HasAttr(dmsg, "version")
        /\ \A n \in {"current_default", "current_available", "sequence"} :
              HasAttr(dmsg, n)
        /\ args.log => \A n \in LogAttrs : HasAttr(dmsg, n)) =>
          Len(sent) >= 1

\* C17: protocol state is scoped to one exchange: the fields of the
\* acknowledgement and of the change telegram are determined by the
\* telegram being answered, the clock and the configuration, whatever was
\* received and answered before.
C17_ExchangeScoped ==
    LET Adv(c) == IF c + 1 > 999 THEN 1 ELSE c + 1
        Cmd(c) == <<6, 242, 8, 244>>[(c % 4) + 1]
        ack == [counter |-> Adv(dmsg.attrs["sequence"].i),
                command |-> Cmd(Adv(dmsg.attrs["sequence"].i)),
                offline_amperage |-> dmsg.attrs["current_default"],
                instant_amperage |-> dmsg.attrs["current_available"],
                version |-> IF has_version THEN dmsg.attrs["version"]
                            ELSE None]
        inWindow == is_in_schedule(sched, now.hour, now.min)
        reported == dmsg.attrs["current_available"].i
        value == IF inWindow THEN PyIntVal(args.current) ELSE PyIntVal(0)
        change == [counter |-> Adv(ack.counter),
                   command |-> Cmd(Adv(ack.counter)),
                   offline_amperage |-> value,
                   instant_amperage |-> value,
                   version |-> ack.version]
    IN  /\ dmsg # None => dmsg = Decoded[line.s]
        /\ Len(sent) >= 1 => sent[1] = ack
        /\ Len(sent) = 2 => sent[2] = change
        /\ (pc = "await" /\ Len(sent) = 1) =>
              (IF inWindow THEN reported = args.current ELSE reported <= 0)

C17_Witness ==
    /\ Len(sent) = 2
    /\ smsg # None
    /\ line.s = Telegram(<<F_S1, F_A, F_V, F_T, F_L, F_M, F_C032, F_s3>>)
    /\ sent[1].counter = 4
    /\ sent[2].counter = 5

\* C18: every change telegram sent carries the configured target current
\* or 0, and never the available current the device reported in the
\* telegram being answered.
C18_ChangeDiffers ==
    Len(sent) = 2 =>
        /\ sent[2].instant_amperage \in {PyIntVal(args.current), PyIntVal(0)}
        /\ sent[2].offline_amperage = sent[2].instant_amperage
        /\ sent[2].instant_amperage # dmsg.attrs["current_available"]

C18_Witness ==
    /\ Len(sent) = 2
    /\ dmsg.attrs["current_available"] = PyIntVal(32)
    /\ args.current = 40
    /\ sent[2].instant_amperage = PyIntVal(40)

\* C19: the change decision is idempotent: if current_change_value returns
\* a value v, then evaluated at the same time for a device reporting v as
\* its available current it returns None.
C19_Idempotent ==
    change_value # None =>
        current_change_value(
            [dmsg EXCEPT !.attrs["current_available"] = change_value],
            args, in_schedule.b) = None

C19_Witness ==
    /\ change_value = PyIntVal(0)
    /\ in_schedule = PyBool(FALSE)
    /\ dmsg.attrs["current_available"] = PyIntVal(40)
    /\ pc = "pace1"

====
